---- MODULE Spec2Model ----
(***************************************************************************)
(* Model of helpers/parsers.py (parse_yuml_model) and helpers/stats.py     *)
(* (compute_model_stats, compute_dataset_summary).                         *)
(*                                                                         *)
(* A text line is a sequence of one-character strings, so that the regex,  *)
(* strip, split and substring tests of the parser are computed on          *)
(* characters as the code computes them.                                   *)
(***************************************************************************)
EXTENDS Integers, Sequences, FiniteSets, TLC

VARIABLES
    pc,            \* "idle" | "parsing" : position of the driver around compute_model_stats
    i,             \* parsers.py:17  number of lines read from the open file
    line,          \* parsers.py:18  the stripped line of the last loop iteration
    classes,       \* parsers.py:8   set of normalized class names
    inheritance,   \* parsers.py:9   list of <<dst, src>>
    associations,  \* parsers.py:10  list of <<src, dst, rel_type>>
    stats_df,      \* the caller's DataFrame: [columns, rows]
    model_name,    \* stats.py:7    the model compute_model_stats was called for
    binary_lines,  \* history: lines read from the open file that were relations of two tokens
    summary,       \* <<the dict compute_dataset_summary returned last>>, <<>> before any call
    error          \* "none" | "ValueError"

vars ==
    <<pc, i, line, classes, inheritance, associations, stats_df, model_name, binary_lines,
      summary, error>>

(***************************************************************************)
(* Bounds                                                                  *)
(***************************************************************************)
\* lines read from one file
MaxLines == 2
\* models of the corpus (rows of yuml_df)
MaxModels == 2

(***************************************************************************)
(* Characters and strings                                                  *)
(***************************************************************************)
IsSpace(c) == c = " "

\* str.strip(): drop leading and trailing whitespace
RECURSIVE LStrip(_)
LStrip(s) == IF s # <<>> /\ IsSpace(Head(s)) THEN LStrip(Tail(s)) ELSE s

RECURSIVE RStrip(_)
RStrip(s) ==
    IF s # <<>> /\ IsSpace(s[Len(s)]) THEN RStrip(SubSeq(s, 1, Len(s) - 1)) ELSE s

Strip(s) == RStrip(LStrip(s))

\* str.startswith(p)
StartsWith(s, p) == Len(s) >= Len(p) /\ SubSeq(s, 1, Len(p)) = p

\* p in s  (substring test)
Contains(s, p) ==
    \E k \in 1..(Len(s) - Len(p) + 1) : SubSeq(s, k, k + Len(p) - 1) = p

\* index of the first occurrence of character c in s at or after position k, 0 if none
RECURSIVE IndexFrom(_, _, _)
IndexFrom(s, c, k) ==
    IF k > Len(s) THEN 0
    ELSE IF s[k] = c THEN k
    ELSE IndexFrom(s, c, k + 1)

\* cls.split("|")[0]
SplitBarFirst(tok) ==
    LET b == IndexFrom(tok, "|", 1)
    IN  IF b = 0 THEN tok ELSE SubSeq(tok, 1, b - 1)

\* re.findall(r'\[([^\]]+)\]', s) scanning from position k: leftmost,
\* non-overlapping matches; the group is one or more characters other than "]"
RECURSIVE FindAllFrom(_, _)
FindAllFrom(s, k) ==
    IF k > Len(s) THEN <<>>
    ELSE IF s[k] # "[" THEN FindAllFrom(s, k + 1)
    ELSE LET j == IndexFrom(s, "]", k + 1)
         IN  IF j = 0 \/ j = k + 1
             THEN FindAllFrom(s, k + 1)
             ELSE <<SubSeq(s, k + 1, j - 1)>> \o FindAllFrom(s, j + 1)

FindAll(s) == FindAllFrom(s, 1)

\* [cls.split("|")[0].strip() for cls in class_names]
Normalize(class_names) ==
    [k \in 1..Len(class_names) |-> Strip(SplitBarFirst(class_names[k]))]

SeqRange(s) == {s[k] : k \in 1..Len(s)}

(***************************************************************************)
(* Input lines                                                             *)
(***************************************************************************)
T(n) == <<"[", n, "]">>

Names == {"A", "B", "C"}

\* [X]^[Y] over all ordered pairs of names: chains, cycles and self-loops
InheritanceLines == {T(a) \o <<"^">> \o T(b) : a \in Names, b \in Names}

\* the joins that hold a single marker, or none
PlainJoins == {<<"+", "+">>, <<"*">>, <<"-", ">">>, <<"-">>}

\* joins that hold two markers, and a lone "+"
MixedJoins ==
    { <<"*", "^">>, <<"+", "+", "^">>, <<"-", ">", "^">>,
      <<"*", "+", "+">>, <<"-", ">", "+", "+">>, <<"-", ">", "*">>, <<"+">> }

AssociationLines ==
    {T("A") \o j \o T("B") : j \in PlainJoins \cup MixedJoins}
    \cup {T("B") \o j \o T("A") : j \in PlainJoins}

\* attributes, whitespace and markers inside the brackets or around the line
DecoratedLines ==
    { <<"[", "A", "|", "x", "]", "^", "[", " ", "B", " ", "]">>,
      <<"[", "A", "|", "^", "]", "-", "[", "B", "]">>,
      <<"[", "|", "x", "]", "-", ">", "[", "B", "]">>,
      <<" ", "[", "A", "]", "*", "[", "B", "]", " ">>,
      <<"/", "[", "A", "]", "^", "[", "B", "]">>,
      <<"[", "[", "A", "]", "[", "B", "]">> }

\* blank lines, comments, and lines without exactly two bracketed tokens
OtherLines ==
    { <<>>,
      <<" ", " ">>,
      <<"/", "/">>,
      <<"/", "/", "[", "A", "]", "^", "[", "B", "]">>,
      <<" ", "/", "/", "[", "C", "]">>,
      <<"/", "/", "[", "A", "]", "[", "B", "]", "[", "C", "]">>,
      <<"[", "A", "]">>,
      <<"[", "C", "|", "x", "]", "*">>,
      <<"[", "A", "]", "^", "[", "B", "]", "*", "[", "C", "]">>,
      <<"[", "A", "]", "[", "B", "]", "[", " ", "C", "|", "x", "]">>,
      <<"[", "]", "^", "[", "A", "]">>,
      <<"[", "A", "^", "*">>,
      <<"-", ">">> }

Lines == InheritanceLines \cup AssociationLines \cup DecoratedLines \cup OtherLines

\* the lines of the files of a corpus of several models
CorpusLines ==
    { T("A") \o <<"^">> \o T("B"),
      T("B") \o <<"^">> \o T("C"),
      T("A") \o <<"+", "+">> \o T("B"),
      T("A") \o <<"*">> \o T("B") }

(***************************************************************************)
(* parse_yuml_model                                                        *)
(***************************************************************************)
\* the if / elif chain of parsers.py:41-65: with the markers tested out of
\* order, "*" before "^"
RelationKindStarFirst(ln) ==
    IF Contains(ln, <<"*">>) THEN "aggregation"
    ELSE IF Contains(ln, <<"^">>) THEN "inheritance"
    ELSE IF Contains(ln, <<"+", "+">>) THEN "composition"
    ELSE IF Contains(ln, <<"-", ">">>) THEN "association"
    ELSE "unknown"

\* the if / elif chain of parsers.py:41-65 for a line of two tokens
RelationKind(ln) ==
    IF Contains(ln, <<"^">>) THEN "inheritance"
    ELSE IF Contains(ln, <<"+", "+">>) THEN "composition"
    ELSE IF Contains(ln, <<"*">>) THEN "aggregation"
    ELSE IF Contains(ln, <<"-", ">">>) THEN "association"
    ELSE "unknown"

\* line.strip() is empty or starts with "//": the loop continues
IsSkipped(ln) == ln = <<>> \/ StartsWith(ln, <<"/", "/">>)

\* the line is neither blank nor a comment and holds exactly two bracketed tokens
IsBinaryLine(ln) == ~IsSkipped(ln) /\ Len(FindAll(ln)) = 2

\* the edge in source order
InheritanceEdgeSourceOrder(src, dst) == <<src, dst>>

\* inheritance.append((dst, src)), parsers.py:42
InheritanceEdge(src, dst) == <<dst, src>>

\* associations.append((src, dst, kind)), parsers.py:48, 54, 60, 65
AssociationEdge(src, dst, kind) == <<src, dst, kind>>

\* the class set updated only by the lines that are binary relations
UpdateClassesBinaryOnly(cls, normalized) ==
    IF Len(normalized) = 2 THEN cls \cup SeqRange(normalized) ELSE cls

\* only the first name of the line reaches the class set
UpdateClassesFirstOnly(cls, normalized) ==
    IF normalized = <<>> THEN cls ELSE cls \cup {normalized[1]}

\* classes.update(normalized), parsers.py:31
UpdateClasses(cls, normalized) == cls \cup SeqRange(normalized)

\* one iteration of the loop over the file, for the raw line l
ParseLine(l) ==
    /\ error = "none"
    /\ pc = "parsing"
    /\ i < MaxLines
    /\ i' = i + 1
    /\ line' = Strip(l)
    /\ binary_lines' = binary_lines + (IF IsBinaryLine(Strip(l)) THEN 1 ELSE 0)
    /\ LET ln == Strip(l)
           normalized == Normalize(FindAll(ln))
       IN  IF IsSkipped(ln)
           THEN UNCHANGED <<classes, inheritance, associations>>
           ELSE /\ classes' = UpdateClasses(classes, normalized)
                /\ IF Len(normalized) # 2
                   THEN UNCHANGED <<inheritance, associations>>
                   ELSE LET src == normalized[1]
                            dst == normalized[2]
                            kind == RelationKind(ln)
                        IN  IF kind = "inheritance"
                            THEN /\ inheritance' =
                                        Append(inheritance, InheritanceEdge(src, dst))
                                 /\ UNCHANGED associations
                            ELSE /\ associations' =
                                        Append(associations, AssociationEdge(src, dst, kind))
                                 /\ UNCHANGED inheritance
    /\ UNCHANGED <<pc, stats_df, model_name, summary, error>>

(***************************************************************************)
(* collections.Counter, as a dict in insertion order: a sequence of        *)
(* <<key, count>> with distinct keys                                       *)
(***************************************************************************)
HasKey(c, key) == \E k \in 1..Len(c) : c[k][1] = key

KeyIndex(c, key) == CHOOSE k \in 1..Len(c) : c[k][1] = key

\* c[key], 0 for a missing key
CounterGet(c, key) == IF HasKey(c, key) THEN c[KeyIndex(c, key)][2] ELSE 0

\* c[key] = n : an existing key keeps its place, a new key goes last
CounterSet(c, key, n) ==
    IF HasKey(c, key)
    THEN [c EXCEPT ![KeyIndex(c, key)] = <<key, n>>]
    ELSE Append(c, <<key, n>>)

\* c[key] += n
CounterAdd(c, key, n) == CounterSet(c, key, CounterGet(c, key) + n)

\* Counter(elems), counting the elements of a list in order
RECURSIVE CountInto(_, _)
CountInto(c, elems) ==
    IF elems = <<>> THEN c
    ELSE CountInto(CounterAdd(c, Head(elems), 1), Tail(elems))

Counter(elems) == CountInto(<<>>, elems)

\* dict.update(mapping): the counts of mapping replace those already held
RECURSIVE CounterUpdateOverwrite(_, _)
CounterUpdateOverwrite(c, mapping) ==
    IF mapping = <<>> THEN c
    ELSE CounterUpdateOverwrite(CounterSet(c, Head(mapping)[1], Head(mapping)[2]),
                                Tail(mapping))

\* c.update(mapping): add the counts of mapping, in its order
RECURSIVE CounterUpdate(_, _)
CounterUpdate(c, mapping) ==
    IF mapping = <<>> THEN c
    ELSE CounterUpdate(CounterAdd(c, Head(mapping)[1], Head(mapping)[2]), Tail(mapping))

\* sum(c.values())
RECURSIVE SumValues(_)
SumValues(c) == IF c = <<>> THEN 0 ELSE Head(c)[2] + SumValues(Tail(c))

\* c.most_common(1)[0][0]: max() over the items keeps the first maximal one
RECURSIVE FirstMaxFrom(_, _, _)
FirstMaxFrom(c, k, best) ==
    IF k > Len(c) THEN c[best][1]
    ELSE IF c[k][2] > c[best][2] THEN FirstMaxFrom(c, k + 1, k)
    ELSE FirstMaxFrom(c, k + 1, best)

\* the last maximal item instead of the first
RECURSIVE LastMaxFrom(_, _, _)
LastMaxFrom(c, k, best) ==
    IF k > Len(c) THEN c[best][1]
    ELSE IF c[k][2] >= c[best][2] THEN LastMaxFrom(c, k + 1, k)
    ELSE LastMaxFrom(c, k + 1, best)

MostCommonLabelLast(c) == LastMaxFrom(c, 2, 1)

MostCommonLabel(c) == FirstMaxFrom(c, 2, 1)

(***************************************************************************)
(* networkx: DiGraph, is_directed_acyclic_graph, dag_longest_path_length   *)
(***************************************************************************)
\* the nodes G.add_edges_from(edges) creates
GraphNodes(edges) == {e[1] : e \in SeqRange(edges)} \cup {e[2] : e \in SeqRange(edges)}

Preds(N, E, v) == {u \in N : <<u, v>> \in E}

\* a topological order exists: peel the nodes without predecessor until none is left
RECURSIVE IsDirectedAcyclic(_, _)
IsDirectedAcyclic(N, E) ==
    IF N = {} THEN TRUE
    ELSE LET sources == {v \in N : Preds(N, E, v) = {}}
         IN  IF sources = {} THEN FALSE
             ELSE IsDirectedAcyclic(N \ sources, E)

SetMax(S) == CHOOSE x \in S : \A y \in S : y <= x
SetMin(S) == CHOOSE x \in S : \A y \in S : x <= y

\* dist[v] of dag_longest_path: 0 without predecessor, else 1 + the largest dist of one
RECURSIVE Dist(_, _, _)
Dist(N, E, v) ==
    IF Preds(N, E, v) = {} THEN 0
    ELSE 1 + SetMax({Dist(N, E, u) : u \in Preds(N, E, v)})

DagLongestPathLength(N, E) == SetMax({Dist(N, E, v) : v \in N})

\* the longest path counted in nodes instead of edges
TreeDepthInNodes(edges) ==
    LET N == GraphNodes(edges)
        E == SeqRange(edges)
    IN  IF IsDirectedAcyclic(N, E) /\ Cardinality(N) > 0
        THEN DagLongestPathLength(N, E) + 1
        ELSE 0

\* stats.py:41-46
TreeDepth(edges) ==
    LET N == GraphNodes(edges)
        E == SeqRange(edges)
    IN  IF IsDirectedAcyclic(N, E) /\ Cardinality(N) > 0
        THEN DagLongestPathLength(N, E)
        ELSE 0

(***************************************************************************)
(* compute_model_stats                                                     *)
(***************************************************************************)
ModelNames == <<"m1", "m2", "m3", "m4">>

\* the models yuml_df has a row for
yuml_df == {ModelNames[k] : k \in 1..MaxModels}

StatsColumns ==
    <<"model", "num_classes", "num_inheritance", "num_associations",
      "association_types", "num_blocks", "tree_depth", "most_frequent_label">>

\* stats.py:48-59
AssocTypeCounts(assocs) == Counter([k \in 1..Len(assocs) |-> assocs[k][3]])

LabelCounts(assocs, inh) == CounterSet(AssocTypeCounts(assocs), "inheritance", Len(inh))

\* the blocks counted without the inheritance edges
NumBlocksNoInheritance(num_classes, num_inheritance, num_associations) ==
    num_classes + num_associations

NumBlocks(num_classes, num_inheritance, num_associations) ==
    num_classes + num_inheritance + num_associations

\* the dict returned at stats.py:67-76
ModelStats(name, cls, inh, assocs) ==
    LET assoc_type_counts == AssocTypeCounts(assocs)
        num_classes == Cardinality(cls)
        num_inheritance == Len(inh)
        num_associations == SumValues(assoc_type_counts)
    IN  [ model |-> name,
          num_classes |-> num_classes,
          num_inheritance |-> num_inheritance,
          num_associations |-> num_associations,
          association_types |-> assoc_type_counts,
          num_blocks |-> NumBlocks(num_classes, num_inheritance, num_associations),
          tree_depth |-> TreeDepth(inh),
          most_frequent_label |-> MostCommonLabel(LabelCounts(assocs, inh)) ]

\* compute_model_stats(m) finds the row of m and opens its file (stats.py:30-38,
\* parsers.py:8-16)
StartModel(m) ==
    /\ error = "none"
    /\ pc = "idle"
    /\ summary = <<>>
    /\ Len(stats_df.rows) < MaxModels
    /\ m = ModelNames[Len(stats_df.rows) + 1]
    /\ m \in yuml_df
    /\ pc' = "parsing"
    /\ model_name' = m
    /\ binary_lines' = 0
    /\ i' = 0
    /\ line' = <<>>
    /\ classes' = {}
    /\ inheritance' = <<>>
    /\ associations' = <<>>
    /\ UNCHANGED <<stats_df, summary, error>>

\* compute_model_stats(m) for a model without row raises (stats.py:30-32)
ModelNotFound(m) ==
    /\ error = "none"
    /\ pc = "idle"
    /\ m \notin yuml_df
    /\ error' = "ValueError"
    /\ model_name' = m
    /\ UNCHANGED <<pc, i, line, classes, inheritance, associations, stats_df, binary_lines,
                    summary>>

\* the file is exhausted: the parser returns, compute_model_stats returns its dict
\* (stats.py:38-76) and the caller adds it to the DataFrame; the locals of the
\* two calls are gone
ComputeModelStats ==
    /\ error = "none"
    /\ pc = "parsing"
    /\ pc' = "idle"
    /\ stats_df' = [stats_df EXCEPT !.rows =
           Append(@, ModelStats(model_name, classes, inheritance, associations))]
    /\ i' = 0
    /\ line' = <<>>
    /\ classes' = {}
    /\ inheritance' = <<>>
    /\ associations' = <<>>
    /\ model_name' = ""
    /\ binary_lines' = 0
    /\ UNCHANGED <<summary, error>>

(***************************************************************************)
(* compute_dataset_summary                                                 *)
(***************************************************************************)
\* head(5), stats.py:117
TopK == 5

\* stats_df[col] as a list
Column(rows, col) == [k \in 1..Len(rows) |-> rows[k][col]]

\* Series.sum()
RECURSIVE SeqSum(_)
SeqSum(xs) == IF xs = <<>> THEN 0 ELSE Head(xs) + SeqSum(Tail(xs))

\* largest r with r * r <= n, searched in lo..hi
RECURSIVE ISqrtIn(_, _, _)
ISqrtIn(n, lo, hi) ==
    IF lo >= hi THEN lo
    ELSE LET mid == (lo + hi + 1) \div 2
         IN  IF mid * mid <= n THEN ISqrtIn(n, mid, hi) ELSE ISqrtIn(n, lo, mid - 1)

\* 46340 is the largest root whose square is a 32-bit integer
ISqrt(n) == ISqrtIn(n, 0, IF n < 46340 THEN n ELSE 46340)

\* round(Series.mean(), 2), in hundredths.  100 * sum / n is never half way
\* between two integers for fewer than 8 rows, so the rounding mode is not felt.
MeanRounded(xs) == (200 * SeqSum(xs) + Len(xs)) \div (2 * Len(xs))

\* round(Series.std(), 2), in hundredths: the sample standard deviation
\* sqrt((n * sum(x^2) - sum(x)^2) / (n * (n - 1))), NaN for a single row
StdRounded(xs) ==
    LET n == Len(xs)
        sq == SeqSum([k \in 1..n |-> xs[k] * xs[k]])
        num == n * sq - SeqSum(xs) * SeqSum(xs)
    IN  IF n < 2 THEN [nan |-> TRUE, v |-> 0]
        ELSE [nan |-> FALSE, v |-> (ISqrt((40000 * num) \div (n * (n - 1))) + 1) \div 2]

\* the Counter built at stats.py:101-106
RECURSIVE UpdateAll(_, _)
UpdateAll(c, maps) ==
    IF maps = <<>> THEN c ELSE UpdateAll(CounterUpdate(c, Head(maps)), Tail(maps))

DatasetLabelCounts(rows) ==
    CounterSet(UpdateAll(<<>>, Column(rows, "association_types")),
               "inheritance", SeqSum(Column(rows, "num_inheritance")))

\* only the first model at depth d
RECURSIVE FirstModelAtDepth(_, _)
FirstModelAtDepth(rows, d) ==
    IF rows = <<>> THEN <<>>
    ELSE IF Head(rows).tree_depth = d THEN <<Head(rows).model>>
    ELSE FirstModelAtDepth(Tail(rows), d)

\* stats_df[stats_df["tree_depth"] == d]["model"].tolist()
RECURSIVE ModelsAtDepth(_, _)
ModelsAtDepth(rows, d) ==
    IF rows = <<>> THEN <<>>
    ELSE (IF Head(rows).tree_depth = d THEN <<Head(rows).model>> ELSE <<>>)
         \o ModelsAtDepth(Tail(rows), d)

\* num_blocks / num_classes.replace(0, pd.NA): a quotient num/den, or NA
BlockDensity(r) ==
    IF r.num_classes = 0
    THEN [na |-> TRUE, num |-> 0, den |-> 1]
    ELSE [na |-> FALSE, num |-> r.num_blocks, den |-> r.num_classes]

\* d1 > d2 for two defined densities
DensityGreater(d1, d2) == d1.num * d2.den > d2.num * d1.den

\* sort_values(by="block_density", ascending=False): the defined densities in
\* descending order, equal ones in row order (the sort of pandas is stable on
\* frames of this size), then the rows without density (na_position="last") in
\* row order.  Returns row indices.
RECURSIVE SortDefined(_, _)
SortDefined(dens, left) ==
    IF left = {} THEN <<>>
    ELSE LET first == CHOOSE k \in left :
                 \A o \in left \ {k} :
                     \/ DensityGreater(dens[k], dens[o])
                     \/ (~DensityGreater(dens[o], dens[k]) /\ k < o)
         IN  <<first>> \o SortDefined(dens, left \ {first})

RECURSIVE AscendingSeq(_)
AscendingSeq(S) ==
    IF S = {} THEN <<>> ELSE <<SetMin(S)>> \o AscendingSeq(S \ {SetMin(S)})

SortByDensity(dens) ==
    SortDefined(dens, {k \in 1..Len(dens) : ~dens[k].na})
    \o AscendingSeq({k \in 1..Len(dens) : dens[k].na})

Head5(xs) == SubSeq(xs, 1, IF Len(xs) < TopK THEN Len(xs) ELSE TopK)

\* stats.py:116-117 and the to_dict(orient="records") of stats.py:141
MostDenseModels(rows) ==
    LET dens == [k \in 1..Len(rows) |-> BlockDensity(rows[k])]
        order == Head5(SortByDensity(dens))
    IN  [k \in 1..Len(order) |->
            [model |-> rows[order[k]].model, block_density |-> dens[order[k]]]]

\* the dict returned at stats.py:119-142
DatasetSummary(rows) ==
    LET max_depth == SetMax(SeqRange(Column(rows, "tree_depth")))
        min_depth == SetMin(SeqRange(Column(rows, "tree_depth")))
        label_counts == DatasetLabelCounts(rows)
    IN  [ total_models |-> Len(rows),
          total_classes |-> SeqSum(Column(rows, "num_classes")),
          total_inheritance |-> SeqSum(Column(rows, "num_inheritance")),
          total_associations |-> SeqSum(Column(rows, "num_associations")),
          total_blocks |-> SeqSum(Column(rows, "num_blocks")),
          avg_classes_per_model |-> MeanRounded(Column(rows, "num_classes")),
          avg_blocks_per_model |-> MeanRounded(Column(rows, "num_blocks")),
          avg_tree_depth |-> MeanRounded(Column(rows, "tree_depth")),
          std_tree_depth |-> StdRounded(Column(rows, "tree_depth")),
          max_tree_depth |-> max_depth,
          min_tree_depth |-> min_depth,
          max_depth_models |-> ModelsAtDepth(rows, max_depth),
          min_depth_models |-> ModelsAtDepth(rows, min_depth),
          std_blocks_per_model |-> StdRounded(Column(rows, "num_blocks")),
          std_classes_per_model |-> StdRounded(Column(rows, "num_classes")),
          most_frequent_label_overall |-> MostCommonLabel(label_counts),
          label_frequency_distribution |-> label_counts,
          top_dense_models |-> MostDenseModels(rows) ]

\* stats_df["block_density"] = ... (stats.py:116): the column is set on the
\* caller's frame, appended when the frame does not have it yet
WithBlockDensity(df) ==
    [ columns |-> IF "block_density" \in SeqRange(df.columns)
                  THEN df.columns
                  ELSE Append(df.columns, "block_density"),
      rows |-> [k \in 1..Len(df.rows) |->
                   [block_density |-> BlockDensity(df.rows[k])] @@ df.rows[k]] ]

\* compute_dataset_summary(stats_df) on a frame that holds at least one row
ComputeDatasetSummary ==
    /\ error = "none"
    /\ pc = "idle"
    /\ Len(stats_df.rows) > 0
    /\ summary' = <<DatasetSummary(stats_df.rows)>>
    /\ stats_df' = WithBlockDensity(stats_df)
    /\ UNCHANGED <<pc, i, line, classes, inheritance, associations, model_name,
                    binary_lines, error>>

(***************************************************************************)
(* Specifications                                                          *)
(***************************************************************************)
Init ==
    /\ pc = "idle"
    /\ i = 0
    /\ line = <<>>
    /\ classes = {}
    /\ inheritance = <<>>
    /\ associations = <<>>
    /\ stats_df = [columns |-> StatsColumns, rows |-> <<>>]
    /\ model_name = ""
    /\ binary_lines = 0
    /\ summary = <<>>
    /\ error = "none"

\* a corpus of up to MaxModels models, summarised
Next ==
    \/ \E m \in yuml_df : StartModel(m)
    \/ \E m \in {"missing"} : ModelNotFound(m)
    \/ \E l \in CorpusLines : ParseLine(l)
    \/ ComputeModelStats
    \/ ComputeDatasetSummary

Spec == Init /\ [][Next]_vars

\* one model, its file drawn from all of Lines: the state after StartModel("m1")
InitDiagram ==
    /\ pc = "parsing"
    /\ i = 0
    /\ line = <<>>
    /\ classes = {}
    /\ inheritance = <<>>
    /\ associations = <<>>
    /\ stats_df = [columns |-> StatsColumns, rows |-> <<>>]
    /\ model_name = ModelNames[1]
    /\ binary_lines = 0
    /\ summary = <<>>
    /\ error = "none"

NextDiagram ==
    \/ \E l \in Lines : ParseLine(l)
    \/ ComputeModelStats

SpecDiagram == InitDiagram /\ [][NextDiagram]_vars

(***************************************************************************)
(* Properties of parse_yuml_model                                          *)
(***************************************************************************)
\* a step of the loop that read one more line of the file
ReadsLine == pc = "parsing" /\ pc' = "parsing" /\ i' = i + 1

Last(s) == s[Len(s)]

\* C1: every non-blank, non-comment line with exactly two bracketed tokens
\* records exactly one edge, whose kind is that of the first marker found in
\* the line in the order "^", "++", "*", "->", else unknown; a line with "^"
\* is an inheritance edge and adds nothing to the associations, whatever
\* other marker it holds.
C1_MarkerPriority ==
    [][ (ReadsLine /\ IsBinaryLine(line')) =>
          LET hat == Contains(line', <<"^">>)
              plus == Contains(line', <<"+", "+">>)
              star == Contains(line', <<"*">>)
              arrow == Contains(line', <<"-", ">">>)
          IN  /\ Len(inheritance') + Len(associations')
                    = Len(inheritance) + Len(associations) + 1
              /\ hat => /\ Len(inheritance') = Len(inheritance) + 1
                        /\ associations' = associations
              /\ ~hat => /\ inheritance' = inheritance
                         /\ Len(associations') = Len(associations) + 1
              /\ (~hat /\ plus) => Last(associations')[3] = "composition"
              /\ (~hat /\ ~plus /\ star) => Last(associations')[3] = "aggregation"
              /\ (~hat /\ ~plus /\ ~star /\ arrow) =>
                     Last(associations')[3] = "association"
              /\ (~hat /\ ~plus /\ ~star /\ ~arrow) =>
                     Last(associations')[3] = "unknown"
      ]_vars

\* a two-token line with both "^" and "*" was read after an aggregation line
\* and became the only inheritance edge
C1_Witness ==
    /\ pc = "parsing"
    /\ i = 2
    /\ IsBinaryLine(line)
    /\ Contains(line, <<"^">>) /\ Contains(line, <<"*">>)
    /\ Len(inheritance) = 1
    /\ Len(associations) = 1
    /\ associations[1][3] = "aggregation"

\* C2: the inheritance edge of a two-token line with "^" is <<name of the
\* second bracket, name of the first bracket>>; the association triple of any
\* other two-token line keeps the source order.
C2_EdgeOrientation ==
    [][ (ReadsLine /\ IsBinaryLine(line')) =>
          LET names == Normalize(FindAll(line'))
          IN  IF Contains(line', <<"^">>)
              THEN inheritance' = Append(inheritance, <<names[2], names[1]>>)
              ELSE /\ Len(associations') = Len(associations) + 1
                   /\ Last(associations')[1] = names[1]
                   /\ Last(associations')[2] = names[2]
      ]_vars

\* [A|x]^[ B ] gave the edge (B, A)
C2_Witness ==
    /\ pc = "parsing"
    /\ i = 1
    /\ line = <<"[", "A", "|", "x", "]", "^", "[", " ", "B", " ", "]">>
    /\ inheritance = << <<(<<"B">>), (<<"A">>)>> >>
    /\ associations = <<>>

\* C3 as stated: any line whose number of bracketed tokens is not two leaves
\* both edge lists unchanged and has all its normalized names in the class set.
C3_AsStated ==
    [][ (ReadsLine /\ Len(FindAll(line')) # 2) =>
          /\ inheritance' = inheritance
          /\ associations' = associations
          /\ SeqRange(Normalize(FindAll(line'))) \subseteq classes'
      ]_vars

\* C3, amended: a non-blank, non-comment line whose number of bracketed tokens
\* is not two leaves both edge lists unchanged and adds every normalized name
\* on it, and nothing else, to the class set.
C3_NonBinaryLine ==
    [][ (ReadsLine /\ ~IsSkipped(line') /\ Len(FindAll(line')) # 2) =>
          /\ inheritance' = inheritance
          /\ associations' = associations
          /\ classes' = classes \cup SeqRange(Normalize(FindAll(line')))
      ]_vars

\* the three-token line [A][B][ C|x] with no edge recorded and A, B, C known
C3_Witness ==
    /\ pc = "parsing"
    /\ i = 1
    /\ Len(FindAll(line)) = 3
    /\ Contains(line, <<"|">>)
    /\ inheritance = <<>>
    /\ associations = <<>>
    /\ classes = {<<"A">>, <<"B">>, <<"C">>}

\* C11: after any prefix of the lines of a file, both endpoints of every
\* inheritance edge and of every association edge are in the class set, and
\* the number of edges, inheritance plus associations, is the number of lines
\* read that were neither blank nor comment and held exactly two bracketed
\* tokens.
C11_EdgesOverClasses ==
    /\ \A k \in 1..Len(inheritance) :
           inheritance[k][1] \in classes /\ inheritance[k][2] \in classes
    /\ \A k \in 1..Len(associations) :
           associations[k][1] \in classes /\ associations[k][2] \in classes
    /\ Len(inheritance) + Len(associations) = binary_lines

\* a relation line and a line that is none were read: one edge, whose two
\* different endpoints are the class set
C11_Witness ==
    /\ pc = "parsing"
    /\ i = 2
    /\ binary_lines = 1
    /\ Len(inheritance) + Len(associations) = 1
    /\ Cardinality(classes) = 2

(***************************************************************************)
(* Properties of compute_model_stats                                       *)
(***************************************************************************)
\* the step in which compute_model_stats returns the record of the diagram
\* held in classes, inheritance and associations
Returns == pc = "parsing" /\ pc' = "idle"

\* the record of the last call
LastStats == stats_df.rows[Len(stats_df.rows)]

\* the sequences of k nodes that follow the edges E
WalksOf(N, E, k) ==
    {w \in [1..k -> N] : \A j \in 1..(k - 1) : <<w[j], w[j + 1]>> \in E}

\* some walk returns to its first node
HasCycle(N, E) ==
    \E k \in 1..Cardinality(N) : \E w \in WalksOf(N, E, k) : <<w[k], w[1]>> \in E

\* the number of edges of the longest walk without repeated node
LongestPathEdges(N, E) ==
    SetMax({k - 1 : k \in {n \in 1..Cardinality(N) :
                \E w \in WalksOf(N, E, n) :
                    \A a, b \in 1..n : a # b => w[a] # w[b]}})

\* C4: tree_depth is the number of edges of the longest directed path of the
\* graph of the inheritance edges as parsed when that graph is acyclic and not
\* empty, 0 without inheritance edge and 0 when the edges hold a cycle, a
\* self-loop included.
C4_TreeDepth ==
    [][ Returns =>
          LET N == GraphNodes(inheritance)
              E == SeqRange(inheritance)
          IN  LastStats'.tree_depth =
                  IF inheritance = <<>> THEN 0
                  ELSE IF HasCycle(N, E) THEN 0
                  ELSE LongestPathEdges(N, E)
      ]_vars

\* a chain of two inheritance edges over three classes, such as [(B,A),(C,B)],
\* has depth 2
C4_Witness ==
    /\ pc = "idle"
    /\ Len(stats_df.rows) = 1
    /\ LastStats.num_inheritance = 2
    /\ LastStats.num_classes = 3
    /\ LastStats.tree_depth = 2

\* the number of entries of a label in the combined histogram
LabelCount(label) ==
    IF label = "inheritance" THEN Len(inheritance)
    ELSE Cardinality({k \in 1..Len(associations) : associations[k][3] = label})

\* the labels of the combined histogram
HistogramLabels == {associations[k][3] : k \in 1..Len(associations)} \cup {"inheritance"}

\* the place of a label in insertion order: association kinds by first
\* appearance, "inheritance" after them
InsertionRank(label) ==
    IF \E k \in 1..Len(associations) : associations[k][3] = label
    THEN SetMin({k \in 1..Len(associations) : associations[k][3] = label})
    ELSE Len(associations) + 1

\* C7: most_frequent_label has the largest count of the combined histogram
\* (association kinds plus "inheritance" = number of inheritance edges), and
\* among the labels with that count it is the first in insertion order, the
\* association kinds by first appearance and "inheritance" last.
C7_MostFrequentLabel ==
    [][ Returns =>
          LET chosen == LastStats'.most_frequent_label
          IN  /\ chosen \in HistogramLabels
              /\ \A other \in HistogramLabels : LabelCount(other) <= LabelCount(chosen)
              /\ \A other \in HistogramLabels \ {chosen} :
                     LabelCount(other) = LabelCount(chosen) =>
                         InsertionRank(chosen) < InsertionRank(other)
              /\ chosen = "inheritance" =>
                     \/ associations = <<>>
                     \/ \A other \in HistogramLabels \ {"inheritance"} :
                            LabelCount(other) < Len(inheritance)
      ]_vars

\* one inheritance edge and one association: the tie goes to the association kind
C7_Witness ==
    /\ pc = "idle"
    /\ Len(stats_df.rows) = 1
    /\ LastStats.num_inheritance = 1
    /\ LastStats.num_associations = 1
    /\ LastStats.most_frequent_label # "inheritance"

\* C8: in every record, num_associations is the sum of association_types,
\* which has no inheritance entry, num_blocks = num_classes + num_inheritance
\* + num_associations, num_classes is the size of the class set and
\* num_inheritance the length of the inheritance list, duplicates counted.
C8_BlockCount ==
    [][ Returns =>
          LET r == LastStats'
          IN  /\ r.num_associations = SumValues(r.association_types)
              /\ r.num_associations = Len(associations)
              /\ \A k \in 1..Len(r.association_types) :
                     r.association_types[k][1] # "inheritance"
              /\ r.num_classes = Cardinality(classes)
              /\ r.num_inheritance = Len(inheritance)
              /\ r.num_blocks = r.num_classes + r.num_inheritance + r.num_associations
      ]_vars

\* two inheritance edges over two classes without cycle are the same edge
\* parsed twice, and count twice
C8_Witness ==
    /\ pc = "idle"
    /\ Len(stats_df.rows) = 1
    /\ LastStats.num_inheritance = 2
    /\ LastStats.num_classes = 2
    /\ LastStats.tree_depth = 1
    /\ LastStats.num_blocks = 4

(***************************************************************************)
(* Properties of compute_dataset_summary                                   *)
(***************************************************************************)
HasSummary == summary # <<>>

Rows == stats_df.rows

\* C5: a record with num_classes = 0 is never listed in the top-density
\* ranking of the summary.
C5_NoUndefinedDensityRanked ==
    HasSummary =>
        \A k \in 1..Len(summary[1].top_dense_models) :
            \A j \in 1..Len(Rows) :
                Rows[j].model = summary[1].top_dense_models[k].model
                    => Rows[j].num_classes # 0

\* the rows in the order given by the permutation p of their indices
Permuted(rows, p) == [k \in 1..Len(rows) |-> rows[p[k]]]

\* the summaries of all the orders of the rows
PermutedSummaries(rows) ==
    {DatasetSummary(Permuted(rows, p)) : p \in Permutations(1..Len(rows))}

\* a summary without most_frequent_label_overall and the top-density ranking,
\* its lists of models as sets and its histogram as a set of <<label, count>>
Figures(s) ==
    [s EXCEPT !.max_depth_models = SeqRange(@),
              !.min_depth_models = SeqRange(@),
              !.label_frequency_distribution = SeqRange(@),
              !.most_frequent_label_overall = "",
              !.top_dense_models = <<>>]

SameFigures(s1, s2) == Figures(s1) = Figures(s2)

\* C6 as stated: the summary of any permutation of the records equals the
\* summary in every field, most_frequent_label_overall and the top-density
\* ranking included.  It is stated for the collections in which every record
\* has a class, so that no refutation rests on a record without density
\* being ranked (C5).
C6_AsStated ==
    (HasSummary /\ \A k \in 1..Len(Rows) : Rows[k].num_classes # 0) =>
        \A other \in PermutedSummaries(Rows) :
            /\ SameFigures(other, summary[1])
            /\ other.most_frequent_label_overall = summary[1].most_frequent_label_overall
            /\ other.top_dense_models = summary[1].top_dense_models

\* a single label attains the largest count of the histogram
UniqueMaxLabel(hist) ==
    Cardinality({k \in 1..Len(hist) : \A j \in 1..Len(hist) : hist[j][2] <= hist[k][2]}) = 1

\* two records have the same density, or both have none
DensityTie(rows) ==
    \E a, b \in 1..Len(rows) :
        /\ a # b
        /\ \/ rows[a].num_classes = 0 /\ rows[b].num_classes = 0
           \/ /\ rows[a].num_classes # 0
              /\ rows[b].num_classes # 0
              /\ rows[a].num_blocks * rows[b].num_classes
                     = rows[b].num_blocks * rows[a].num_classes

\* C6, amended: the summary of any permutation of the records has the same
\* totals, means, standard deviations, extremal depths, sets of extremal
\* models and label histogram; the same most_frequent_label_overall when a
\* single label attains the largest count; the same top-density ranking when
\* no two records have the same density.
C6_OrderIndependent ==
    HasSummary =>
        \A other \in PermutedSummaries(Rows) :
            /\ SameFigures(other, summary[1])
            /\ UniqueMaxLabel(summary[1].label_frequency_distribution) =>
                   other.most_frequent_label_overall
                       = summary[1].most_frequent_label_overall
            /\ ~DensityTie(Rows) =>
                   other.top_dense_models = summary[1].top_dense_models

\* two different records, summarised, without tie of label or density
C6_Witness ==
    /\ HasSummary
    /\ Len(Rows) = 2
    /\ Rows[1].num_blocks # Rows[2].num_blocks
    /\ Rows[1].tree_depth # Rows[2].tree_depth
    /\ Rows[1].association_types # Rows[2].association_types
    /\ UniqueMaxLabel(summary[1].label_frequency_distribution)
    /\ ~DensityTie(Rows)

\* C9: a call of compute_dataset_summary leaves the caller's collection as it
\* was: same records, same fields, same values.
C9_InputUnchanged == [][summary' # summary => stats_df' = stats_df]_vars

\* C10: max_tree_depth and min_tree_depth are the largest and smallest
\* tree_depth of the records, and max_depth_models and min_depth_models list
\* the models of exactly the records at that depth.
C10_ExtremalDepth ==
    HasSummary =>
        LET s == summary[1]
            idx == 1..Len(Rows)
        IN  /\ \E k \in idx : Rows[k].tree_depth = s.max_tree_depth
            /\ \A k \in idx : Rows[k].tree_depth <= s.max_tree_depth
            /\ \E k \in idx : Rows[k].tree_depth = s.min_tree_depth
            /\ \A k \in idx : Rows[k].tree_depth >= s.min_tree_depth
            /\ SeqRange(s.max_depth_models)
                   = {Rows[k].model : k \in {j \in idx : Rows[j].tree_depth = s.max_tree_depth}}
            /\ SeqRange(s.min_depth_models)
                   = {Rows[k].model : k \in {j \in idx : Rows[j].tree_depth = s.min_tree_depth}}
            /\ Len(s.max_depth_models)
                   = Cardinality({j \in idx : Rows[j].tree_depth = s.max_tree_depth})
            /\ Len(s.min_depth_models)
                   = Cardinality({j \in idx : Rows[j].tree_depth = s.min_tree_depth})

\* two models tie for the largest depth and both are listed
C10_Witness ==
    /\ HasSummary
    /\ Len(Rows) = 2
    /\ Rows[1].tree_depth = 1
    /\ Rows[2].tree_depth = 1
    /\ summary[1].max_tree_depth = 1
    /\ Len(summary[1].max_depth_models) = 2

====
